---- MODULE Spec2Model ----
(***************************************************************************)
(* Model of the configuration store of the Miracle Framework extension:    *)
(* IniTreeDataProvider (the tree held in iniData, config.ini as the        *)
(* backing file, the file watcher, the change event) and the operations    *)
(* the commands call on it.                                                *)
(*                                                                         *)
(* A JavaScript string is a sequence of one-character strings, so that     *)
(* split, trim, the regular expressions and the ini package's escaping     *)
(* are computed character by character.  The backing file is a sequence    *)
(* of lines (input boxes are single-line, so no value holds a line break;  *)
(* ini.stringify ends every line with the platform's eol).                 *)
(***************************************************************************)
EXTENDS Integers, Sequences, FiniteSets, TLC

\* const x = ...; f(x): a value is computed once and then named
With(x, f(_)) == f(x)

\* the same, with x computed before f is entered
Once(x, f(_)) == CHOOSE r \in {f(y) : y \in {x}} : TRUE

(***************************************************************************)
(* Strings                                                                 *)
(***************************************************************************)
S_application == <<"a","p","p","l","i","c","a","t","i","o","n">>
S_library == <<"l","i","b","r","a","r","y">>
S_libraryDot == <<"l","i","b","r","a","r","y",".">>
S_dependencies == <<"d","e","p","e","n","d","e","n","c","i","e","s">>
S_path == <<"p","a","t","h">>
S_type == <<"t","y","p","e">>
S_static == <<"s","t","a","t","i","c">>
S_dynamic == <<"d","y","n","a","m","i","c">>
S_true == <<"t","r","u","e">>
S_false == <<"f","a","l","s","e">>
S_null == <<"n","u","l","l">>
S_Yes == <<"Y","e","s">>
S_No == <<"N","o">>

IsSpace(c) == c \in {" ", "\t"}

startsWith(s, p) == Len(s) >= Len(p) /\ SubSeq(s, 1, Len(p)) = p
endsWith(s, p) == Len(s) >= Len(p) /\ SubSeq(s, Len(s) - Len(p) + 1, Len(s)) = p

RECURSIVE trimStart(_)
trimStart(s) == IF s # <<>> /\ IsSpace(Head(s)) THEN trimStart(Tail(s)) ELSE s

RECURSIVE trimEnd(_)
trimEnd(s) ==
  IF s # <<>> /\ IsSpace(s[Len(s)]) THEN trimEnd(SubSeq(s, 1, Len(s) - 1)) ELSE s

trim(s) == trimEnd(trimStart(s))

\* String.prototype.split(sep) for a one-character separator: the pieces
\* between the separators; "" splits to [""].
RECURSIVE splitFrom(_, _, _)
splitFrom(s, sep, cur) ==
  IF s = <<>> THEN <<cur>>
  ELSE IF Head(s) = sep THEN <<cur>> \o splitFrom(Tail(s), sep, <<>>)
  ELSE splitFrom(Tail(s), sep, Append(cur, Head(s)))

split(s, sep) == splitFrom(s, sep, <<>>)

\* Array.prototype.join(sep)
RECURSIVE join(_, _)
join(parts, sep) ==
  IF parts = <<>> THEN <<>>
  ELSE IF Len(parts) = 1 THEN parts[1]
  ELSE parts[1] \o <<sep>> \o join(Tail(parts), sep)

includes(arr, x) == \E i \in 1..Len(arr) : arr[i] = x

hasChar(s, cs) == \E i \in 1..Len(s) : s[i] \in cs

RECURSIVE removeChars(_, _)
removeChars(s, cs) ==
  IF s = <<>> THEN <<>>
  ELSE IF Head(s) \in cs THEN removeChars(Tail(s), cs)
  ELSE <<Head(s)>> \o removeChars(Tail(s), cs)

(***************************************************************************)
(* Values of the tree: a JavaScript value is a string, a boolean, null,    *)
(* undefined or an object whose own keys are kept in insertion order.      *)
(***************************************************************************)
Str(s) == [t |-> "string", s |-> s, b |-> FALSE, kids |-> <<>>]
Bool(b) == [t |-> "boolean", s |-> <<>>, b |-> b, kids |-> <<>>]
Null == [t |-> "null", s |-> <<>>, b |-> FALSE, kids |-> <<>>]
Undefined == [t |-> "undefined", s |-> <<>>, b |-> FALSE, kids |-> <<>>]
Obj(kids) == [t |-> "object", s |-> <<>>, b |-> FALSE, kids |-> kids]
Entry(k, n) == [k |-> k, n |-> n]

\* typeof v === 'object' && v: null is an object to typeof
isObject(v) == v.t = "object"
\* ToBoolean
truthy(v) ==
  CASE v.t = "object" -> TRUE
    [] v.t = "string" -> v.s # <<>>
    [] v.t = "boolean" -> v.b
    [] v.t = "number" -> v.s # <<"0">>
    [] OTHER -> FALSE

keysOf(v) == [i \in 1..Len(v.kids) |-> v.kids[i].k]
hasKey(v, k) == v.t = "object" /\ \E i \in 1..Len(v.kids) : v.kids[i].k = k
indexOfKey(v, k) == CHOOSE i \in 1..Len(v.kids) : v.kids[i].k = k

\* v[k]: an own property of an object, undefined on anything else (the
\* inherited properties of strings and of plain objects are not modelled).
getProp(v, k) == IF hasKey(v, k) THEN v.kids[indexOfKey(v, k)].n ELSE Undefined

\* obj[k] = n on an object: an existing key keeps its place, a new key is
\* appended.
setProp(v, k, n) ==
  IF hasKey(v, k)
  THEN Obj([i \in 1..Len(v.kids) |->
             IF v.kids[i].k = k THEN Entry(k, n) ELSE v.kids[i]])
  ELSE Obj(Append(v.kids, Entry(k, n)))

\* delete obj[k]
deleteProp(v, k) ==
  IF hasKey(v, k)
  THEN Obj(SubSeq(v.kids, 1, indexOfKey(v, k) - 1)
           \o SubSeq(v.kids, indexOfKey(v, k) + 1, Len(v.kids)))
  ELSE v

\* a number, kept as its decimal digits
Num(digits) == [t |-> "number", s |-> digits, b |-> FALSE, kids |-> <<>>]

Digits == <<"0", "1", "2", "3", "4", "5", "6", "7", "8", "9">>
digitValue(c) == (CHOOSE i \in 1..10 : Digits[i] = c) - 1

\* the decimal digits of a natural number
RECURSIVE toDigits(_)
toDigits(n) ==
  IF n < 10 THEN <<Digits[n + 1]>> ELSE Append(toDigits(n \div 10), Digits[(n % 10) + 1])

\* a canonical array index: digits with no leading zero
isIndex(k) ==
  /\ k # <<>>
  /\ \A i \in 1..Len(k) : \E d \in 1..10 : Digits[d] = k[i]
  /\ (Len(k) = 1 \/ k[1] # "0")

RECURSIVE indexValue(_)
indexValue(k) ==
  IF k = <<>> THEN 0 ELSE 10 * indexValue(SubSeq(k, 1, Len(k) - 1)) + digitValue(k[Len(k)])

\* data[part] as getSectionData reads it: an own property of an object; on
\* a string the character at an index and the length (the methods that
\* strings, booleans and plain objects inherit are not modelled: no name in
\* the inputs is the name of one)
member(data, part) ==
  IF data.t = "string"
  THEN IF isIndex(part) /\ indexValue(part) < Len(data.s)
       THEN Str(<<data.s[indexValue(part) + 1]>>)
       ELSE IF part = <<"l", "e", "n", "g", "t", "h">>
       THEN Num(toDigits(Len(data.s)))
       ELSE Undefined
  ELSE getProp(data, part)

\* the value at a path of keys below v, undefined when the path leaves the
\* objects
RECURSIVE getIn(_, _)
getIn(v, p) == IF p = <<>> THEN v ELSE getIn(getProp(v, Head(p)), Tail(p))

\* v with the value at path p replaced by n (every prefix of p is an object)
RECURSIVE setIn(_, _, _)
setIn(v, p, n) ==
  IF p = <<>> THEN n
  ELSE setProp(v, Head(p), setIn(getProp(v, Head(p)), Tail(p), n))

(***************************************************************************)
(* The ini package (dependency "ini": "^5.0.0"): ini.stringify is encode,  *)
(* ini.parse is decode.  Keys ending in "[]" (arrays), the key __proto__   *)
(* and single-quoted values are outside the files considered here.         *)
(***************************************************************************)
isQuoted(s) ==
  \/ (startsWith(s, <<"\"">>) /\ endsWith(s, <<"\"">>))
  \/ (startsWith(s, <<"'">>) /\ endsWith(s, <<"'">>))

\* JSON.stringify of a string, a boolean or null
RECURSIVE jsonEscape(_)
jsonEscape(s) ==
  IF s = <<>> THEN <<>>
  ELSE (CASE Head(s) = "\"" -> <<"\\", "\"">>
          [] Head(s) = "\\" -> <<"\\", "\\">>
          [] Head(s) = "\t" -> <<"\\", "t">>
          [] OTHER -> <<Head(s)>>) \o jsonEscape(Tail(s))

JSONstringify(v) ==
  CASE v.t = "string" -> <<"\"">> \o jsonEscape(v.s) \o <<"\"">>
    [] v.t = "boolean" -> IF v.b THEN S_true ELSE S_false
    [] OTHER -> S_null

\* the inside of a JSON string literal: [ok, s]; a bare quote, a raw tab or
\* an unknown escape is a syntax error
RECURSIVE jsonUnescape(_)
jsonUnescape(s) ==
  IF s = <<>> THEN [ok |-> TRUE, s |-> <<>>]
  ELSE IF Head(s) = "\\"
  THEN IF Len(s) >= 2 /\ s[2] \in {"\"", "\\", "/", "t"}
       THEN LET r == jsonUnescape(SubSeq(s, 3, Len(s)))
            IN [ok |-> r.ok, s |-> <<IF s[2] = "t" THEN "\t" ELSE s[2]>> \o r.s]
       ELSE [ok |-> FALSE, s |-> <<>>]
  ELSE IF Head(s) \in {"\"", "\t"} THEN [ok |-> FALSE, s |-> <<>>]
  ELSE LET r == jsonUnescape(Tail(s))
       IN [ok |-> r.ok, s |-> <<Head(s)>> \o r.s]

\* JSON.parse: [ok, v]; ok is FALSE where JSON.parse throws.  Only string
\* literals and true, false, null are recognised.
JSONparse(s) ==
  Once(trim(s), LAMBDA w :
    IF w = S_true THEN [ok |-> TRUE, v |-> Bool(TRUE)]
    ELSE IF w = S_false THEN [ok |-> TRUE, v |-> Bool(FALSE)]
    ELSE IF w = S_null THEN [ok |-> TRUE, v |-> Null]
    ELSE IF Len(w) >= 2 /\ w[1] = "\"" /\ w[Len(w)] = "\""
    THEN Once(jsonUnescape(SubSeq(w, 2, Len(w) - 1)), LAMBDA r :
           [ok |-> r.ok, v |-> Str(r.s)])
    ELSE [ok |-> FALSE, v |-> Undefined])

RECURSIVE escapeChars(_, _)
escapeChars(s, cs) ==
  IF s = <<>> THEN <<>>
  ELSE (IF Head(s) \in cs THEN <<"\\", Head(s)>> ELSE <<Head(s)>>)
       \o escapeChars(Tail(s), cs)

\* safe(val): the text written for a key, a section name or a value
safe(v) ==
  IF \/ v.t # "string"
     \/ hasChar(v.s, {"="})
     \/ startsWith(v.s, <<"[">>)
     \/ (Len(v.s) > 1 /\ isQuoted(v.s))
     \/ v.s # trim(v.s)
  THEN JSONstringify(v)
  ELSE escapeChars(v.s, {";", "#"})

\* the walk of unsafe over an unquoted text: stops at the first ; or # that
\* is not escaped, drops the backslash before \ ; #
RECURSIVE unescWalk(_, _)
unescWalk(s, esc) ==
  IF s = <<>> THEN (IF esc THEN <<"\\">> ELSE <<>>)
  ELSE IF esc
  THEN (IF Head(s) \in {"\\", ";", "#"} THEN <<Head(s)>> ELSE <<"\\", Head(s)>>)
       \o unescWalk(Tail(s), FALSE)
  ELSE IF Head(s) \in {";", "#"} THEN <<>>
  ELSE IF Head(s) = "\\" THEN unescWalk(Tail(s), TRUE)
  ELSE <<Head(s)>> \o unescWalk(Tail(s), FALSE)

\* unsafe(val): the value read back from a text
unsafe(s) ==
  Once(trim(s), LAMBDA val :
    IF isQuoted(val)
    THEN Once(IF val[1] = "'" THEN SubSeq(val, 2, Len(val) - 1) ELSE val,
              LAMBDA inner :
                Once(JSONparse(inner), LAMBDA r :
                  IF r.ok THEN r.v ELSE Str(inner)))
    ELSE Str(trim(unescWalk(val, FALSE))))

\* String(v), for a value used as a property key
toStr(v) ==
  CASE v.t = "string" -> v.s
    [] v.t = "boolean" -> IF v.b THEN S_true ELSE S_false
    [] OTHER -> S_null

\* splitSections(str, '.'): split at every dot that no backslash precedes
RECURSIVE splitSectionsFrom(_, _, _)
splitSectionsFrom(s, i, cur) ==
  IF i > Len(s) THEN <<cur>>
  ELSE IF s[i] = "." /\ ~(i > 1 /\ s[i - 1] = "\\")
  THEN <<cur>> \o splitSectionsFrom(s, i + 1, <<>>)
  ELSE splitSectionsFrom(s, i + 1, Append(cur, s[i]))

splitSections(s) == splitSectionsFrom(s, 1, <<>>)

\* parts.join('\\.')
RECURSIVE joinEscapedDot(_)
joinEscapedDot(parts) ==
  IF Len(parts) <= 1 THEN (IF parts = <<>> THEN <<>> ELSE parts[1])
  ELSE parts[1] \o <<"\\", ".">> \o joinEscapedDot(Tail(parts))

\* l.replace(/\\\./g, '.')
RECURSIVE unescapeDots(_)
unescapeDots(s) ==
  IF s = <<>> THEN <<>>
  ELSE IF Len(s) >= 2 /\ s[1] = "\\" /\ s[2] = "."
  THEN <<".">> \o unescapeDots(SubSeq(s, 3, Len(s)))
  ELSE <<Head(s)>> \o unescapeDots(Tail(s))

\* the key = value lines of the keys of obj that are no sections
RECURSIVE encodeLeaves(_, _)
encodeLeaves(kids, i) ==
  IF i > Len(kids) THEN <<>>
  ELSE (IF isObject(kids[i].n) THEN <<>>
        ELSE <<safe(Str(kids[i].k)) \o <<"=">> \o safe(kids[i].n)>>)
       \o encodeLeaves(kids, i + 1)

\* encode(obj, {section}): the lines of the text; hasSection is FALSE at the
\* top level.  A section with no line of its own gets no header; an empty
\* line separates a section from what precedes it.
RECURSIVE encode(_, _, _)
RECURSIVE encodeChildren(_, _, _, _, _)
\* an encode that joins the levels of a section name like the parts of one
\* key, with an escaped dot
encodeChildren_escapedSeparator(kids, i, hasSection, section, out) ==
  IF i > Len(kids) THEN out
  ELSE IF ~isObject(kids[i].n) THEN encodeChildren(kids, i + 1, hasSection, section, out)
  ELSE With(encode(kids[i].n, TRUE,
                   (IF hasSection /\ section # <<>> THEN section \o <<"\\", ".">> ELSE <<>>)
                   \o joinEscapedDot(splitSections(kids[i].k))),
            LAMBDA child :
              encodeChildren(kids, i + 1, hasSection, section,
                (IF out # <<>> /\ child # <<>> THEN Append(out, <<>>) ELSE out)
                \o child))

encodeChildren(kids, i, hasSection, section, out) ==
  IF i > Len(kids) THEN out
  ELSE IF ~isObject(kids[i].n) THEN encodeChildren(kids, i + 1, hasSection, section, out)
  ELSE With(encode(kids[i].n, TRUE,
                   (IF hasSection /\ section # <<>> THEN section \o <<".">> ELSE <<>>)
                   \o joinEscapedDot(splitSections(kids[i].k))),
            LAMBDA child :
              encodeChildren(kids, i + 1, hasSection, section,
                (IF out # <<>> /\ child # <<>> THEN Append(out, <<>>) ELSE out)
                \o child))

encode(obj, hasSection, section) ==
  With(encodeLeaves(obj.kids, 1), LAMBDA leaves :
    encodeChildren(obj.kids, 1, hasSection, section,
      IF hasSection /\ section # <<>> /\ leaves # <<>>
      THEN <<<<"[">> \o safe(Str(section)) \o <<"]">>>> \o leaves
      ELSE leaves))

stringify(obj) == encode(obj, FALSE, <<>>)

\* index of the first c in s, 0 when there is none
RECURSIVE indexOf(_, _, _)
indexOf(s, c, i) ==
  IF i > Len(s) THEN 0 ELSE IF s[i] = c THEN i ELSE indexOf(s, c, i + 1)

\* one line against /^\[([^\]]*)\]\s*$|^([^=]+)(=(.*))?$/
matchLine(line) ==
  Once(indexOf(line, "]", 1), LAMBDA j :
  Once(indexOf(line, "=", 1), LAMBDA e :
    IF line # <<>> /\ line[1] = "[" /\ j > 0
       /\ trimStart(SubSeq(line, j + 1, Len(line))) = <<>>
    THEN [kind |-> "section", a |-> SubSeq(line, 2, j - 1), hasValue |-> FALSE, b |-> <<>>]
    ELSE IF e = 1 THEN [kind |-> "none", a |-> <<>>, hasValue |-> FALSE, b |-> <<>>]
    ELSE IF e = 0 THEN [kind |-> "key", a |-> line, hasValue |-> FALSE, b |-> <<>>]
    ELSE [kind |-> "key", a |-> SubSeq(line, 1, e - 1), hasValue |-> TRUE,
          b |-> SubSeq(line, e + 1, Len(line))]))

\* lines that decode skips: empty, blank, or a comment
skipLine(line) ==
  \/ trimStart(line) = <<>>
  \/ Head(trimStart(line)) \in {";", "#"}

\* the value decode stores for a key line
decodeValue(m) ==
  Once(IF m.hasValue THEN unsafe(m.b) ELSE Bool(TRUE), LAMBDA valueRaw :
    IF valueRaw.t = "string" /\ valueRaw.s \in {S_true, S_false, S_null}
    THEN JSONparse(valueRaw.s).v
    ELSE valueRaw)

\* one turn of the loop of decode over the lines.  acc.p is the object the
\* keys go to: the path <<>> (out itself) or <<section>>; acc.attached is
\* FALSE when out[section] held a truthy value that is no object, and the
\* keys are lost.
decodeLine(line, acc) ==
  IF skipLine(line) THEN acc
  ELSE Once(matchLine(line), LAMBDA m :
    IF m.kind = "none" THEN acc
    ELSE Once(toStr(unsafe(m.a)), LAMBDA key :
      IF m.kind = "section"
      THEN Once(getProp(acc.out, key), LAMBDA old :
             IF truthy(old)
             THEN [out |-> acc.out, p |-> <<key>>, attached |-> isObject(old)]
             ELSE [out |-> setProp(acc.out, key, Obj(<<>>)), p |-> <<key>>,
                   attached |-> TRUE])
      ELSE IF acc.attached
           THEN [acc EXCEPT !.out = setIn(@, Append(acc.p, key), decodeValue(m))]
           ELSE acc))

\* the loop of decode over the lines
RECURSIVE decodeLines(_, _, _)
decodeLines(lines, i, acc) ==
  IF i > Len(lines) THEN acc.out
  ELSE Once(decodeLine(lines[i], acc), LAMBDA acc2 :
         decodeLines(lines, i + 1, acc2))

\* the walk down the parts of a dotted section name: every part that is no
\* object yet becomes an empty object
RECURSIVE ensurePath(_, _, _)
ensurePath(out, done, parts) ==
  IF parts = <<>> THEN out
  ELSE Once(Append(done, Head(parts)), LAMBDA here :
       Once(IF getIn(out, here).t \in {"object", "null"}
            THEN out ELSE setIn(out, here, Obj(<<>>)), LAMBDA out2 :
         ensurePath(out2, here, Tail(parts))))

\* one turn of the second loop of decode: a top-level section named a.b
\* moves below a as b, and its name is collected
nestSection(k, acc) ==
  IF getProp(acc.out, k).t \notin {"object", "null"} THEN acc
  ELSE Once(splitSections(k), LAMBDA all :
       Once(SubSeq(all, 1, Len(all) - 1), LAMBDA parts :
       Once(unescapeDots(all[Len(all)]), LAMBDA nl :
         IF parts = <<>> /\ nl = all[Len(all)]
         THEN acc
         ELSE Once(ensurePath(acc.out, <<>>, parts), LAMBDA made :
                [out |-> setIn(made, Append(parts, nl), getProp(acc.out, k)),
                 remove |-> Append(acc.remove, k)]))))

\* the second loop of decode; the moved names are deleted at the end
RECURSIVE nestSections(_, _, _)
nestSections(ks, i, acc) ==
  IF i > Len(ks) THEN acc
  ELSE Once(nestSection(ks[i], acc), LAMBDA acc2 : nestSections(ks, i + 1, acc2))

RECURSIVE deleteAll(_, _)
deleteAll(out, ks) ==
  IF ks = <<>> THEN out
  ELSE Once(deleteProp(out, Head(ks)), LAMBDA out2 : deleteAll(out2, Tail(ks)))

\* decode(str)
decode(lines) ==
  Once(decodeLines(lines, 1, [out |-> Obj(<<>>), p |-> <<>>, attached |-> TRUE]),
       LAMBDA flat :
  Once(nestSections(keysOf(flat), 1, [out |-> flat, remove |-> <<>>]), LAMBDA r :
    deleteAll(r.out, r.remove)))

parse(lines) == decode(lines)

(***************************************************************************)
(* Bounds and inputs                                                       *)
(***************************************************************************)
\* edit commands (editIniValue, addDependency) and external edits in one
\* behaviour of SpecEdit
MaxOps == 2
\* the same beside an addLibrary flow, in one behaviour of Spec
MaxOpsAll == 1
\* edits of config.ini by another program in one behaviour
MaxExternal == 1

\* the addLibrary flows that may be in progress (the command can be invoked
\* again while an earlier flow waits at a prompt)
Flows == {"f1", "f2"}

F_application ==
  << <<"[">> \o S_application \o <<"]">>, S_dependencies \o <<"=">> >>
F_project ==
  << <<"r", "=", "a">>,
     <<"[">> \o S_application \o <<"]">>,
     S_dependencies \o <<"=", "m">>,
     <<>>,
     <<"[">> \o S_libraryDot \o <<"g", "]">>,
     S_path \o <<"=", "g">>,
     S_type \o <<"=">> \o S_static,
     S_dependencies \o <<"=">> >>

NoFile == [exists |-> FALSE, content |-> <<>>]
FileOf(lines) == [exists |-> TRUE, content |-> lines]

\* config.ini when the extension activates, and what another program may
\* leave there
InitFiles == {NoFile, FileOf(F_application), FileOf(F_project)}
ExternalFiles == {NoFile, FileOf(F_application), FileOf(F_project)}

\* more shapes that config.ini can have: a section named 0 below a, a root
\* key a that is a string, a section whose name holds an escaped dot, a
\* section two levels below library, a key line with a blank before the =,
\* and a list of two dependencies
S_mathlib == <<"m","a","t","h","l","i","b">>
F_zero == << <<"[", "a", ".", "0", "]">>, <<"k", "=", "v">> >>
F_leaf == << <<"a", "=", "x", "y">> >>
F_dotted == << <<"[", "a", "\\", ".", "b", "]">>, <<"k", "=", "v">> >>
F_deep == << <<"[">> \o S_libraryDot \o <<"g", ".", "s", "]">>, <<"k", "=", "v">> >>
F_spaced == << <<"[">> \o S_application \o <<"]">>, S_dependencies \o <<" ", "=">> >>
F_two ==
  << <<"[">> \o S_application \o <<"]">>,
     S_dependencies \o <<"=", "a", ",", " ", "b">> >>
\* the section application with no key
F_bare == << <<"[">> \o S_application \o <<"]">> >>
ViewFiles ==
  {FileOf(F_zero), FileOf(F_leaf), FileOf(F_dotted), FileOf(F_deep),
   FileOf(F_spaced), FileOf(F_two), FileOf(F_bare)}

\* what the user types into the input boxes
Values == {<<"x">>, S_true}
DepNames == {<<"m">>, <<" ", "m">>}
NameInputs == {<<"g">>, <<".", "/", "h">>, <<".", ".", "/", "x">>}
Cancel == <<"\t", "cancel">>

(***************************************************************************)
(* The store: iniData, config.ini and what a handler did so far            *)
(***************************************************************************)
\* the loadIniFile of the first treeView.ts: when config.ini is missing the
\* message is shown and iniData is left as it is
loadIniFile_keepTree(st) ==
  IF st.file.exists
  THEN [st EXCEPT !.iniData = parse(st.file.content), !.dirty = FALSE,
                  !.trace = @ \o <<"read", "load">>]
  ELSE [st EXCEPT !.trace = @ \o <<"error", "load">>]

\* a loadIniFile without the existsSync test: readFileSync throws when
\* config.ini is missing
loadIniFile_unguarded(st) ==
  IF st.file.exists
  THEN [st EXCEPT !.iniData = parse(st.file.content), !.dirty = FALSE,
                  !.trace = @ \o <<"read", "load">>]
  ELSE [st EXCEPT !.trace = Append(@, "read"), !.outcome = "ENOENT"]

\* loadIniFile: readFileSync and the assignment to iniData are the events
\* read and load; nothing of this process runs between them
loadIniFile(st) ==
  IF st.file.exists
  THEN [st EXCEPT !.iniData = parse(st.file.content),
                  !.dirty = FALSE,
                  !.trace = @ \o <<"read", "load">>]
  ELSE [st EXCEPT !.iniData = Obj(<<>>),
                  !.dirty = FALSE,
                  !.trace = @ \o <<"error", "load">>]

\* a refresh that fires onDidChangeTreeData without loading config.ini
refresh_noReload(st) == [st EXCEPT !.trace = Append(@, "fire")]

\* a refresh that saves the tree it has loaded
refresh_saves(st) ==
  [loadIniFile(st) EXCEPT !.file = FileOf(stringify(loadIniFile(st).iniData)),
                          !.trace = @ \o <<"write", "fire">>]

\* refresh: reload, then fire onDidChangeTreeData
refresh(st) == [loadIniFile(st) EXCEPT !.trace = Append(@, "fire")]

\* updateIniFile: the whole file is replaced by the text of the tree
updateIniFile(st) ==
  [st EXCEPT !.file = FileOf(stringify(st.iniData)),
             !.persisted = st.iniData,
             !.dirty = FALSE,
             !.trace = Append(@, "write")]

\* an assignment into iniData
mutate(st, p, n) ==
  [st EXCEPT !.iniData = setIn(@, p, n),
             !.dirty = TRUE,
             !.trace = Append(@, "mutate")]

showInformationMessage(st, outcome) ==
  [st EXCEPT !.trace = Append(@, "info"), !.outcome = outcome]
showErrorMessage(st, outcome) ==
  [st EXCEPT !.trace = Append(@, "error"), !.outcome = outcome]
\* an exception leaves the handler
throw(st, outcome) == [st EXCEPT !.outcome = outcome]

\* getSectionData: the parts of the dotted path that were walked, and the
\* value found (undefined when a part is missing or the walk meets a falsy
\* value)
RECURSIVE getSectionDataFrom(_, _)
getSectionDataFrom(data, parts) ==
  IF parts = <<>> THEN data
  ELSE IF truthy(data) /\ member(data, Head(parts)).t # "undefined"
  THEN getSectionDataFrom(member(data, Head(parts)), Tail(parts))
  ELSE Undefined

getSectionData(tree, sectionPath) ==
  getSectionDataFrom(tree, split(sectionPath, "."))

(***************************************************************************)
(* The tree view                                                           *)
(***************************************************************************)
\* new IniTreeItem(label, data, collapsibleState, section)
IniTreeItem(label, data, section) ==
  [label |-> label, data |-> data, section |-> section,
   contextValue |->
     IF ~isObject(data) /\ data.t # "null" THEN "iniItem"
     ELSE IF \/ section = S_application
             \/ section = S_library
             \/ startsWith(section, S_libraryDot)
     THEN "applicationOrLibrary"
     ELSE "iniSection"]

\* getChildren(): the root sections
getChildrenRoot(tree) ==
  [i \in 1..Len(tree.kids) |->
     LET key == tree.kids[i].k
         item == IniTreeItem(key, tree.kids[i].n, key)
     IN [item EXCEPT !.contextValue =
           IF key = S_application \/ key = S_library
           THEN "applicationOrLibrary" ELSE "iniSection"]]

\* getChildren(element); an element whose data is null has no children
\* here (Object.keys(null) throws, and the view shows none)
getChildren(element) ==
  IF element.data.t \in {"object", "null"}
  THEN [i \in 1..Len(element.data.kids) |->
          LET key == element.data.kids[i].k
              d == element.data.kids[i].n
              isSection == d.t \in {"object", "null"}
              sectionPath ==
                IF isSection
                THEN (IF element.section # <<>>
                      THEN element.section \o <<".">> \o key ELSE key)
                ELSE element.section
          IN IniTreeItem(key, d, sectionPath)]
  ELSE <<>>

Range(f) == {f[i] : i \in DOMAIN f}

\* every item the view gets by expanding the tree from the root
RECURSIVE itemsBelow(_)
itemsBelow(element) ==
  LET cs == Range(getChildren(element))
  IN cs \cup UNION {itemsBelow(c) : c \in cs}

allItems(tree) ==
  LET rs == Range(getChildrenRoot(tree))
  IN rs \cup UNION {itemsBelow(r) : r \in rs}

\* what the view keeps of an item for the commands
shown(item) ==
  [label |-> item.label, section |-> item.section,
   leaf |-> item.data.t \notin {"object", "null"},
   contextValue |-> item.contextValue]

viewOf(tree) == {shown(it) : it \in allItems(tree)}

(***************************************************************************)
(* The handlers.  Each takes the store as a record st and gives it back    *)
(* with what the handler did: [iniData, file, persisted, dirty, trace,     *)
(* outcome].                                                               *)
(***************************************************************************)
\* an updateIniValue that refreshes before it writes
updateIniValue_notifyFirst(st, item, value) ==
  With(getSectionData(st.iniData, item.section), LAMBDA targetData :
    IF truthy(targetData)
    THEN IF isObject(targetData)
         THEN showInformationMessage(
                updateIniFile(refresh(
                  mutate(st, Append(split(item.section, "."), item.label),
                         Str(value)))),
                "ok")
         ELSE throw(st, "TypeError")
    ELSE showErrorMessage(st, "SectionNotFound"))

\* the updateIniValue of the first treeView.ts: a section that is not found
\* makes the key a key of the root
updateIniValue_rootFallback(st, item, value) ==
  With(getSectionData(st.iniData, item.section), LAMBDA targetData :
    IF truthy(targetData) /\ ~isObject(targetData) THEN throw(st, "TypeError")
    ELSE showInformationMessage(
           refresh(updateIniFile(
             mutate(st,
                    IF truthy(targetData)
                    THEN Append(split(item.section, "."), item.label)
                    ELSE <<item.label>>,
                    Str(value)))),
           "ok"))

\* an updateIniValue whose reload is asynchronous: the file is read before
\* the handler's own write and iniData is replaced after it
updateIniValue_staleReload(st, item, value) ==
  With(getSectionData(st.iniData, item.section), LAMBDA targetData :
    IF truthy(targetData)
    THEN IF isObject(targetData)
         THEN With(mutate(st, Append(split(item.section, "."), item.label),
                          Str(value)), LAMBDA m :
                [updateIniFile(m) EXCEPT
                   !.iniData = loadIniFile(st).iniData,
                   !.trace = m.trace \o <<"read", "write", "load", "fire", "info">>,
                   !.outcome = "ok"])
         ELSE throw(st, "TypeError")
    ELSE showErrorMessage(st, "SectionNotFound"))

\* updateIniValue(item, value); the compiled module is strict, so an
\* assignment to a property of a string or boolean throws a TypeError
updateIniValue(st, item, value) ==
  LET section == item.section
      key == item.label
      targetData == getSectionData(st.iniData, section)
  IN IF truthy(targetData)
     THEN IF isObject(targetData)
          THEN showInformationMessage(
                 refresh(updateIniFile(
                   mutate(st, Append(split(section, "."), key), Str(value)))),
                 "ok")
          ELSE throw(st, "TypeError")
     ELSE showErrorMessage(st, "SectionNotFound")

\* currentDeps ? currentDeps.split(',').map(dep => dep.trim()) : []
depsArrayOf(currentDeps) ==
  IF truthy(currentDeps)
  THEN LET parts == split(currentDeps.s, ",")
       IN [i \in 1..Len(parts) |-> trim(parts[i])]
  ELSE <<>>

\* the lines shared by addDependency and the last step of addLibrary: read
\* the dependencies of targetData (found at sectionName), add the name
\* unless the list has it, write and refresh
appendDependency(st, sectionName, targetData, dependency) ==
  LET found == getProp(targetData, S_dependencies)
      currentDeps == IF truthy(found) THEN found ELSE Str(<<>>)
  IN IF currentDeps.t # "string" THEN throw(st, "TypeError")
     ELSE LET depsArray == depsArrayOf(currentDeps)
          IN IF ~includes(depsArray, dependency)
             THEN IF isObject(targetData)
                  THEN showInformationMessage(
                         refresh(updateIniFile(
                           mutate(st, Append(split(sectionName, "."), S_dependencies),
                                  Str(join(Append(depsArray, dependency), ","))))),
                         "ok")
                  ELSE throw(st, "TypeError")
             ELSE showInformationMessage(st, "AlreadyExists")

\* the addDependency of the first treeView.ts: the name is appended whether
\* or not the list has it
addDependency_append(st, item, dependency) ==
  With(IF item.section # <<>> THEN item.section ELSE item.label, LAMBDA section :
  With(getSectionData(st.iniData, section), LAMBDA targetData :
    IF section = <<>> \/ ~truthy(targetData)
    THEN showErrorMessage(st, "SectionNotFound")
    ELSE IF ~isObject(targetData) THEN throw(st, "TypeError")
    ELSE With(getProp(targetData, S_dependencies), LAMBDA currentDeps :
           showInformationMessage(
             refresh(updateIniFile(
               mutate(st, Append(split(section, "."), S_dependencies),
                      Str(IF currentDeps.t = "string" /\ truthy(currentDeps)
                          THEN currentDeps.s \o <<",">> \o dependency
                          ELSE dependency)))),
             "ok"))))

\* an addDependency that puts the name before the entries of the list
addDependency_prepend(st, item, dependency) ==
  With(IF item.section # <<>> THEN item.section ELSE item.label, LAMBDA section :
  With(getSectionData(st.iniData, section), LAMBDA targetData :
    IF section = <<>> \/ ~truthy(targetData)
    THEN showErrorMessage(st, "SectionNotFound")
    ELSE IF ~isObject(targetData) THEN throw(st, "TypeError")
    ELSE With(getProp(targetData, S_dependencies), LAMBDA found :
           IF truthy(found) /\ found.t # "string" THEN throw(st, "TypeError")
           ELSE IF includes(depsArrayOf(found), dependency)
           THEN showInformationMessage(st, "AlreadyExists")
           ELSE showInformationMessage(
                  refresh(updateIniFile(
                    mutate(st, Append(split(section, "."), S_dependencies),
                           Str(join(<<dependency>> \o depsArrayOf(found), ","))))),
                  "ok"))))

\* addDependency(item, dependency)
addDependency(st, item, dependency) ==
  LET section == IF item.section # <<>> THEN item.section ELSE item.label
      targetData == getSectionData(st.iniData, section)
  IN IF section = <<>> \/ ~truthy(targetData)
     THEN showErrorMessage(st, "SectionNotFound")
     ELSE appendDependency(st, section, targetData, dependency)

\* libraryName.replace(/^\.?\/+/, '').replace(/[\\/]/g, '').trim()
RECURSIVE dropSlashes(_)
dropSlashes(s) == IF s # <<>> /\ Head(s) = "/" THEN dropSlashes(Tail(s)) ELSE s

sanitize(name) ==
  LET afterDot == IF name # <<>> /\ Head(name) = "." THEN Tail(name) ELSE name
      lead == IF afterDot # <<>> /\ Head(afterDot) = "/"
              THEN dropSlashes(afterDot)
              ELSE IF name # <<>> /\ Head(name) = "/" THEN dropSlashes(name)
              ELSE name
  IN trim(removeChars(lead, {"\\", "/"}))

\* /^[A-Za-z0-9_-]+$/
NameChars ==
  {"a","b","c","d","e","f","g","h","i","j","k","l","m","n","o","p","q","r",
   "s","t","u","v","w","x","y","z",
   "A","B","C","D","E","F","G","H","I","J","K","L","M","N","O","P","Q","R",
   "S","T","U","V","W","X","Y","Z",
   "0","1","2","3","4","5","6","7","8","9","_","-"}
validName(name) == name # <<>> /\ \A i \in 1..Len(name) : name[i] \in NameChars

\* the duplicate check of the first treeView.ts: the library is looked up
\* under the flat key library.<name>
addLibraryName_flatKey(st, input) ==
  IF input = Cancel \/ input = <<>> THEN throw(st, "cancelled")
  ELSE With(sanitize(input), LAMBDA libraryName :
    IF ~validName(libraryName) THEN showErrorMessage(st, "InvalidName")
    ELSE With(IF ~truthy(getProp(st.iniData, S_library))
              THEN mutate(st, <<S_library>>, Obj(<<>>))
              ELSE st, LAMBDA s1 :
           IF truthy(getProp(s1.iniData, S_libraryDot \o libraryName))
           THEN showErrorMessage(s1, "DuplicateLibrary")
           ELSE throw(s1, "pending")))

\* an addLibrary that tests the name only after the library section was
\* made
addLibraryName_lateValidation(st, input) ==
  IF input = Cancel \/ input = <<>> THEN throw(st, "cancelled")
  ELSE With(IF ~truthy(getProp(st.iniData, S_library))
            THEN mutate(st, <<S_library>>, Obj(<<>>))
            ELSE st, LAMBDA s1 :
         IF ~validName(sanitize(input)) THEN showErrorMessage(s1, "InvalidName")
         ELSE IF truthy(getIn(s1.iniData, <<S_library, sanitize(input)>>))
         THEN showErrorMessage(s1, "DuplicateLibrary")
         ELSE throw(s1, "pending"))

\* an addLibrary without the test of the name against the pattern
addLibraryName_noValidation(st, input) ==
  IF input = Cancel \/ input = <<>> THEN throw(st, "cancelled")
  ELSE With(IF ~truthy(getProp(st.iniData, S_library))
            THEN mutate(st, <<S_library>>, Obj(<<>>))
            ELSE st, LAMBDA s1 :
         IF truthy(getIn(s1.iniData, <<S_library, sanitize(input)>>))
         THEN showErrorMessage(s1, "DuplicateLibrary")
         ELSE throw(s1, "pending"))

\* addLibrary, from the call to the await of the type prompt: the name
\* prompt resolved with input
addLibraryName(st, input) ==
  IF input = Cancel \/ input = <<>> THEN throw(st, "cancelled")
  ELSE LET libraryName == sanitize(input) IN
    IF ~validName(libraryName) THEN showErrorMessage(st, "InvalidName")
    ELSE LET s1 == IF ~truthy(getProp(st.iniData, S_library))
                   THEN mutate(st, <<S_library>>, Obj(<<>>))
                   ELSE st
         IN IF truthy(getIn(s1.iniData, <<S_library, libraryName>>))
            THEN showErrorMessage(s1, "DuplicateLibrary")
            ELSE throw(s1, "pending")

\* addLibrary, from the end of runSetupScript to the await of the
\* add-as-dependency prompt; the catch of addLibrary reports what is thrown
addLibrarySetup(st, libraryName, libType, ok) ==
  IF ~ok THEN showErrorMessage(showErrorMessage(st, "ExternalActionFailure"),
                               "ExternalActionFailure")
  ELSE LET s1 == showInformationMessage(st, "pending") IN
    IF isObject(getProp(s1.iniData, S_library))
    THEN updateIniFile(
           mutate(s1, <<S_library, libraryName>>,
                  Obj(<<Entry(S_path, Str(libraryName)),
                        Entry(S_type, Str(libType)),
                        Entry(S_dependencies, Str(<<>>))>>)))
    ELSE showErrorMessage(s1, "TypeError")

\* the options of the target prompt
optionsOf(tree) ==
  LET lib == getProp(tree, S_library)
  IN {S_application}
     \cup (IF isObject(lib)
           THEN {S_libraryDot \o lib.kids[i].k : i \in 1..Len(lib.kids)}
           ELSE {})

\* an end of addLibrary that reloads and does not fire
addLibraryEnd_noNotify(st) == showInformationMessage(loadIniFile(st), "ok")

\* the end of addLibrary: refresh, "added successfully"
addLibraryEnd(st) == showInformationMessage(refresh(st), "ok")

\* addLibrary, after the add-as-dependency prompt was answered with No or
\* dismissed
addLibraryDep(st) == addLibraryEnd(st)

\* addLibrary, after the target prompt: the end of the flow
addLibraryTarget(st, libraryName, target) ==
  IF target = Cancel
  THEN addLibraryEnd(st)
  ELSE With(getSectionData(st.iniData, target), LAMBDA targetData :
    IF truthy(targetData)
    THEN With(appendDependency(st, target, targetData, libraryName), LAMBDA s1 :
           IF s1.outcome = "TypeError" THEN showErrorMessage(s1, "TypeError")
           ELSE addLibraryEnd(s1))
    ELSE addLibraryEnd(showErrorMessage(st, "SectionNotFound")))

(***************************************************************************)
(* State                                                                   *)
(***************************************************************************)
VARIABLES
  iniData,       \* this.iniData
  file,          \* config.ini: [exists, content]
  watchPending,  \* fs.watchFile has a change of config.ini to report
  items,         \* the tree items the view holds (the commands get these)
  flow,          \* per addLibrary flow: where it waits and its locals
  trace,         \* what the last step did, in order
  lastOp,        \* the last step: operation, arguments, outcome
  persisted,     \* the tree handed to the last updateIniFile
  dirty,         \* iniData holds an assignment that is not written
  onlyAdds,      \* only addDependency and addLibrary have run so far
  nops,          \* commands and external edits so far
  extEdits       \* external edits so far

vars == <<iniData, file, watchPending, items, flow, trace, lastOp,
          persisted, dirty, onlyAdds, nops, extEdits>>

NoItem == [label |-> <<>>, section |-> <<>>, leaf |-> FALSE, contextValue |-> "none"]
Op(op, phase, f, item, arg, outcome) ==
  [op |-> op, phase |-> phase, flow |-> f, item |-> item, arg |-> arg,
   outcome |-> outcome, fresh |-> item \in viewOf(iniData)]

\* tree0 and file0 are iniData and config.ini when the flow was started;
\* reloaded says that the watcher reloaded iniData while the flow waited at
\* the type prompt or for setup.py
IdleFlow == [pc |-> "idle", libraryName |-> <<>>, libType |-> <<>>,
             options |-> {}, result |-> "none",
             tree0 |-> Undefined, file0 |-> NoFile, reloaded |-> FALSE]

\* the store a handler starts with
Store ==
  [iniData |-> iniData, file |-> file, persisted |-> persisted,
   dirty |-> dirty, trace |-> <<>>, outcome |-> "none"]

\* the store a handler leaves; a write is a change the watcher will report
Commit(r) ==
  /\ iniData' = r.iniData
  /\ file' = r.file
  /\ persisted' = r.persisted
  /\ dirty' = r.dirty
  /\ trace' = r.trace
  /\ watchPending' = (watchPending \/ includes(r.trace, "write"))

\* the constructor: loadIniFile, then the watcher is installed
InitOn(files) ==
  /\ file \in files
  /\ \E r \in {loadIniFile([iniData |-> Undefined, file |-> file,
                             persisted |-> Undefined, dirty |-> FALSE,
                             trace |-> <<>>, outcome |-> "none"])} :
        /\ iniData = r.iniData
        /\ trace = r.trace
        /\ items = viewOf(r.iniData)
  /\ watchPending = FALSE
  /\ flow = [f \in Flows |-> IdleFlow]
  /\ lastOp = Op("constructor", "", "", NoItem, <<>>, "none")
  /\ persisted = Undefined
  /\ dirty = FALSE
  /\ onlyAdds = TRUE
  /\ nops = 0
  /\ extEdits = 0

Init == InitOn(InitFiles)

\* miracle.editIniValue on a leaf item, the input box resolved with value
UpdateIniValue(item, value) ==
  /\ item.leaf
  /\ \E r \in {updateIniValue(Store, item, value)} :
        /\ Commit(r)
        /\ lastOp' = Op("updateIniValue", "", "", item, value, r.outcome)
  /\ nops' = nops + 1
  /\ onlyAdds' = FALSE
  /\ UNCHANGED <<items, flow, extEdits>>

\* miracle.addDependency on an item whose menu offers it, the input box
\* resolved with dependency
AddDependency(item, dependency) ==
  /\ item.contextValue = "applicationOrLibrary"
  /\ \E r \in {addDependency(Store, item, dependency)} :
        /\ Commit(r)
        /\ lastOp' = Op("addDependency", "", "", item, dependency, r.outcome)
  /\ nops' = nops + 1
  /\ UNCHANGED <<items, flow, onlyAdds, extEdits>>

\* miracle.addLibrary, up to the type prompt
AddLibraryName(f, input) ==
  /\ flow[f].pc = "idle"
  /\ \E r \in {addLibraryName(Store, input)} :
        /\ Commit(r)
        /\ lastOp' = Op("addLibrary", "name", f, NoItem, input, r.outcome)
        /\ flow' = [flow EXCEPT ![f] =
             IF r.outcome = "pending"
             THEN [@ EXCEPT !.pc = "type", !.libraryName = sanitize(input),
                            !.tree0 = iniData, !.file0 = file]
             ELSE [@ EXCEPT !.pc = "done", !.result = r.outcome,
                            !.libraryName =
                              IF r.outcome = "DuplicateLibrary"
                              THEN sanitize(input) ELSE <<>>,
                            !.tree0 = iniData, !.file0 = file]]
  /\ UNCHANGED <<items, onlyAdds, nops, extEdits>>

\* the type prompt resolved: runSetupScript starts
AddLibraryType(f, libType) ==
  /\ flow[f].pc = "type"
  /\ \E out \in {IF libType = Cancel THEN "cancelled" ELSE "pending"} :
        /\ lastOp' = Op("addLibrary", "type", f, NoItem, libType, out)
        /\ flow' = [flow EXCEPT ![f] =
             IF libType = Cancel
             THEN [@ EXCEPT !.pc = "done", !.result = "cancelled"]
             ELSE [@ EXCEPT !.pc = "setup", !.libType = libType]]
  /\ trace' = <<>>
  /\ UNCHANGED <<iniData, file, watchPending, items, persisted, dirty,
                 onlyAdds, nops, extEdits>>

\* setup.py ended: the library is put into iniData and written
AddLibrarySetup(f, ok) ==
  /\ flow[f].pc = "setup"
  /\ \E r \in {addLibrarySetup(Store, flow[f].libraryName, flow[f].libType, ok)} :
        /\ Commit(r)
        /\ lastOp' = Op("addLibrary", "setup", f, NoItem, flow[f].libraryName, r.outcome)
        /\ flow' = [flow EXCEPT ![f] =
             IF r.outcome = "pending"
             THEN [@ EXCEPT !.pc = "dep"]
             ELSE [@ EXCEPT !.pc = "done", !.result = r.outcome]]
  /\ UNCHANGED <<items, onlyAdds, nops, extEdits>>

\* the add-as-dependency prompt resolved
AddLibraryDep(f, answer) ==
  /\ flow[f].pc = "dep"
  /\ IF answer = S_Yes
     THEN /\ flow' = [flow EXCEPT ![f] =
                 [@ EXCEPT !.pc = "target", !.options = optionsOf(iniData)]]
          /\ trace' = <<>>
          /\ lastOp' = Op("addLibrary", "dep", f, NoItem, answer, "pending")
          /\ UNCHANGED <<iniData, file, watchPending, persisted, dirty>>
     ELSE \E r \in {addLibraryDep(Store)} :
             /\ Commit(r)
             /\ lastOp' = Op("addLibrary", "dep", f, NoItem, answer, r.outcome)
             /\ flow' = [flow EXCEPT ![f] = [@ EXCEPT !.pc = "done", !.result = "ok"]]
  /\ UNCHANGED <<items, onlyAdds, nops, extEdits>>

\* the target prompt resolved
AddLibraryTarget(f, target) ==
  /\ flow[f].pc = "target"
  /\ target \in flow[f].options \cup {Cancel}
  /\ \E r \in {addLibraryTarget(Store, flow[f].libraryName, target)} :
        /\ Commit(r)
        /\ lastOp' = Op("addLibrary", "target", f, NoItem, target, r.outcome)
        /\ flow' = [flow EXCEPT ![f] = [@ EXCEPT !.pc = "done", !.result = r.outcome]]
  /\ UNCHANGED <<items, onlyAdds, nops, extEdits>>

\* another program replaces or removes config.ini
ExternalEdit(f2) ==
  /\ f2 # file
  /\ file' = f2
  /\ watchPending' = TRUE
  /\ trace' = <<>>
  /\ lastOp' = Op("externalEdit", "", "", NoItem, <<>>, "none")
  /\ nops' = nops + 1
  /\ extEdits' = extEdits + 1
  /\ onlyAdds' = FALSE
  /\ UNCHANGED <<iniData, items, flow, persisted, dirty>>

\* a watcher that notes the change of config.ini and calls no listener
WatchFile_unwatched ==
  /\ watchPending
  /\ watchPending' = FALSE
  /\ UNCHANGED <<iniData, file, items, flow, trace, lastOp, persisted, dirty,
                 onlyAdds, nops, extEdits>>

\* the listener of fs.watchFile: refresh; a write of config.ini by the
\* listener would be a change that the watcher reports again
WatchFile ==
  /\ watchPending
  /\ \E r \in {refresh(Store)} :
        /\ iniData' = r.iniData /\ file' = r.file /\ persisted' = r.persisted
        /\ dirty' = r.dirty /\ trace' = r.trace
        /\ watchPending' = includes(r.trace, "write")
  /\ lastOp' = Op("watchFile", "", "", NoItem, <<>>, "none")
  /\ flow' = [f \in Flows |->
                IF flow[f].pc \in {"type", "setup"}
                THEN [flow[f] EXCEPT !.reloaded = TRUE] ELSE flow[f]]
  /\ UNCHANGED <<items, onlyAdds, nops, extEdits>>

\* miracle.refreshIniTree: refresh
RefreshIniTree ==
  /\ \E r \in {refresh(Store)} :
        /\ iniData' = r.iniData /\ file' = r.file /\ persisted' = r.persisted
        /\ dirty' = r.dirty /\ trace' = r.trace
  /\ lastOp' = Op("refreshIniTree", "", "", NoItem, <<>>, "none")
  /\ UNCHANGED <<watchPending, items, flow, onlyAdds, nops, extEdits>>

\* the view asks the provider again (after the change event, or when a
\* node is expanded)
GetChildren ==
  /\ items # viewOf(iniData)
  /\ items' = viewOf(iniData)
  /\ trace' = <<>>
  /\ lastOp' = Op("getChildren", "", "", NoItem, <<>>, "none")
  /\ UNCHANGED <<iniData, file, watchPending, flow, persisted,
                 dirty, onlyAdds, nops, extEdits>>

\* Spec: every command, one addLibrary flow, the watcher, another program
Next ==
  \/ nops < MaxOpsAll
     /\ \E item \in items, value \in Values : UpdateIniValue(item, value)
  \/ nops < MaxOpsAll
     /\ \E item \in items, dependency \in DepNames : AddDependency(item, dependency)
  \/ \E input \in NameInputs \cup {Cancel} : AddLibraryName("f1", input)
  \/ \E libType \in {S_static, S_dynamic, Cancel} : AddLibraryType("f1", libType)
  \/ \E ok \in BOOLEAN : AddLibrarySetup("f1", ok)
  \/ \E answer \in {S_Yes, S_No} : AddLibraryDep("f1", answer)
  \/ \E target \in flow["f1"].options \cup {Cancel} : AddLibraryTarget("f1", target)
  \/ nops < MaxOpsAll /\ extEdits < MaxExternal
     /\ \E f2 \in ExternalFiles : ExternalEdit(f2)
  \/ WatchFile
  \/ RefreshIniTree
  \/ GetChildren

Spec == Init /\ [][Next]_vars

\* SpecEdit: the edit commands on the items of the view, which may be of an
\* earlier tree, with the watcher and another program
NextEdit ==
  \/ nops < MaxOps
     /\ \E item \in items, value \in Values : UpdateIniValue(item, value)
  \/ nops < MaxOps
     /\ \E item \in items, dependency \in DepNames : AddDependency(item, dependency)
  \/ nops < MaxOps /\ extEdits < MaxExternal
     /\ \E f2 \in ExternalFiles : ExternalEdit(f2)
  \/ WatchFile
  \/ RefreshIniTree
  \/ GetChildren

SpecEdit == Init /\ [][NextEdit]_vars

\* SpecWatch: SpecEdit with the polling of fs.watchFile, which calls the
\* listener for every change of config.ini it has seen
SpecWatch == Init /\ [][NextEdit]_vars /\ WF_vars(WatchFile)

\* SpecView: the edit commands and the view on more shapes of config.ini
InitView == InitOn(ViewFiles)

NextView ==
  \/ nops < MaxOps
     /\ \E item \in items : UpdateIniValue(item, <<"x">>)
  \/ nops < MaxOps
     /\ \E item \in items : AddDependency(item, S_mathlib)
  \/ nops < MaxOps /\ extEdits < MaxExternal
     /\ \E f2 \in ViewFiles : ExternalEdit(f2)
  \/ WatchFile
  \/ GetChildren

SpecView == InitView /\ [][NextView]_vars

\* SpecTwice: addLibrary invoked again after an earlier flow ended
NextTwice ==
  \/ \E f \in Flows, input \in NameInputs \cup {Cancel} :
       /\ f = "f2" => flow["f1"].pc = "done"
       /\ AddLibraryName(f, input)
  \/ \E f \in Flows, libType \in {S_static, S_dynamic, Cancel} : AddLibraryType(f, libType)
  \/ \E f \in Flows, ok \in BOOLEAN : AddLibrarySetup(f, ok)
  \/ \E f \in Flows, answer \in {S_Yes, S_No} : AddLibraryDep(f, answer)
  \/ \E f \in Flows : \E target \in flow[f].options \cup {Cancel} :
       AddLibraryTarget(f, target)
  \/ WatchFile

SpecTwice == Init /\ [][NextTwice]_vars

(***************************************************************************)
(* Properties                                                              *)
(***************************************************************************)
\* C1: when updateIniValue, addDependency or addLibrary has completed
\* successfully, iniData is the tree that parsing config.ini as it is at
\* that moment gives (the empty tree when another program removed the file,
\* which is what loadIniFile holds then).
C1_TreeIsParsedFile ==
  (lastOp.op \in {"updateIniValue", "addDependency", "addLibrary"}
   /\ lastOp.outcome = "ok")
  => iniData = (IF file.exists THEN parse(file.content) ELSE Obj(<<>>))

\* addLibrary ended with "added successfully" and the library h is in the
\* tree read back from config.ini
C1_Witness ==
  /\ lastOp.op = "addLibrary" /\ lastOp.outcome = "ok"
  /\ file.exists
  /\ isObject(getIn(iniData, <<S_library, <<"h">>>>))

\* C2: the tree handed to updateIniFile, written as text and parsed again,
\* is the same tree: same sections, keys, values, and the same order.
C2_RoundTrip ==
  persisted.t = "object" => parse(stringify(persisted)) = persisted

\* C3: in a mutating operation the write of config.ini comes before the
\* change event: between an assignment into iniData and a later fire there
\* is a write, and no event is fired while an assignment is unwritten.
C3_WriteBeforeNotify ==
  /\ \A j \in DOMAIN trace : trace[j] = "fire" =>
       \A i \in 1..(j - 1) : trace[i] = "mutate" =>
         \E k \in (i + 1)..(j - 1) : trace[k] = "write"
  /\ dirty => ~includes(trace, "fire")

\* addDependency added a name: assignment, write, reload, event, message
C3_Witness ==
  /\ lastOp.op = "addDependency" /\ lastOp.outcome = "ok"
  /\ trace = <<"mutate", "write", "read", "load", "fire", "info">>

\* C4: every reload (a load after the constructor's) is followed by the
\* change event in the same handler run, and a successful updateIniValue,
\* addDependency or addLibrary has fired the event after its last
\* assignment and write, before it returns.
C4_NotifyAfterReloadAndSuccess ==
  /\ lastOp.op # "constructor" =>
       \A i \in DOMAIN trace : trace[i] = "load" =>
         \E j \in (i + 1)..Len(trace) : trace[j] = "fire"
  /\ (lastOp.op \in {"updateIniValue", "addDependency", "addLibrary"}
      /\ lastOp.outcome = "ok")
     => \E j \in DOMAIN trace :
          /\ trace[j] = "fire"
          /\ \A i \in DOMAIN trace : trace[i] \in {"mutate", "write"} => i < j

\* addLibrary created the library g in an empty tree, the prompt was
\* answered No, and the flow ended with the reload and the event
C4_Witness ==
  /\ lastOp.op = "addLibrary" /\ lastOp.phase = "dep" /\ lastOp.outcome = "ok"
  /\ trace = <<"read", "load", "fire", "info">>
  /\ getIn(iniData, <<S_library, <<"g">>, S_type>>) = Str(S_dynamic)

C6_UpdateSetsValue ==
  (lastOp.op = "updateIniValue" /\ lastOp.fresh)
  => /\ lastOp.outcome = "ok"
     /\ getIn(iniData, Append(split(lastOp.item.section, "."), lastOp.item.label))
          = Str(lastOp.arg)
     /\ file.exists
     /\ getIn(parse(file.content),
              Append(split(lastOp.item.section, "."), lastOp.item.label))
          = Str(lastOp.arg)

\* C7: addDependency called a second time with the same item and name
\* leaves the dependencies of the section as the first call left them.
C7_AddTwiceIsAddOnce ==
  [][ (/\ lastOp.op = "addDependency" /\ lastOp.outcome = "ok"
       /\ lastOp'.op = "addDependency"
       /\ lastOp'.item = lastOp.item
       /\ lastOp'.arg = lastOp.arg)
      => getIn(iniData', Append(split(lastOp.item.section, "."), S_dependencies))
           = getIn(iniData, Append(split(lastOp.item.section, "."), S_dependencies))
    ]_vars

\* C8: addDependency with a name that the section's dependencies, split at
\* the commas and trimmed, already hold reports "already exists"; iniData
\* and config.ini stay as they were: nothing is assigned, written, reloaded
\* or fired.
C8_DuplicateIsNoOp ==
  [][ (/\ lastOp'.op = "addDependency"
       /\ isObject(getSectionData(iniData, lastOp'.item.section))
       /\ getProp(getSectionData(iniData, lastOp'.item.section),
                  S_dependencies).t = "string"
       /\ includes(depsArrayOf(getProp(getSectionData(iniData, lastOp'.item.section),
                                       S_dependencies)),
                   lastOp'.arg))
      => (/\ lastOp'.outcome = "AlreadyExists"
          /\ iniData' = iniData
          /\ file' = file
          /\ \A i \in DOMAIN trace' :
               trace'[i] \notin {"mutate", "write", "load", "fire"}) ]_vars

\* addDependency of m to application, whose dependencies are m
C8_Witness ==
  /\ lastOp.op = "addDependency" /\ lastOp.outcome = "AlreadyExists"
  /\ lastOp.item.section = S_application /\ lastOp.arg = <<"m">>
  /\ getIn(iniData, <<S_application, S_dependencies>>) = Str(<<"m">>)

\* C9: as long as only addDependency and addLibrary have run on a tree
\* loaded with duplicate-free lists, the dependencies of application and of
\* every library.<name>, split at the commas and trimmed, hold no name
\* twice.
C9_NoDuplicateDependencies ==
  onlyAdds =>
    \A u \in {<<S_application>>}
             \cup {<<S_library, k>> : k \in Range(keysOf(getProp(iniData, S_library)))} :
      getIn(iniData, Append(u, S_dependencies)).t = "string" =>
        \A i, j \in DOMAIN depsArrayOf(getIn(iniData, Append(u, S_dependencies))) :
          depsArrayOf(getIn(iniData, Append(u, S_dependencies)))[i]
            = depsArrayOf(getIn(iniData, Append(u, S_dependencies)))[j]
          => i = j

\* C10: after an addLibrary that ended successfully, an addLibrary given the
\* same name reports that the library already exists, and iniData and
\* config.ini are after it what they were before it.
C10_SecondAddLibraryIsDuplicate ==
  [][ (/\ lastOp'.op = "addLibrary" /\ lastOp'.phase = "name"
       /\ \E g \in Flows : /\ flow[g].result = "ok"
                           /\ flow[g].libraryName = sanitize(lastOp'.arg))
      => (/\ lastOp'.outcome = "DuplicateLibrary"
          /\ iniData' = iniData
          /\ file' = file) ]_vars

\* the first flow added h, the second flow was given the same name
C10_Witness ==
  /\ flow["f1"].result = "ok"
  /\ flow["f2"].result = "DuplicateLibrary"
  /\ flow["f2"].libraryName = flow["f1"].libraryName
  /\ flow["f1"].libraryName = <<"h">>

\* C11: a name that, sanitized, is not made of letters, digits, _ and -
\* only is rejected: iniData and config.ini stay as they were, nothing is
\* assigned or written, and the flow ends without the type prompt, so
\* setup.py is not run.
C11_InvalidNameRejected ==
  [][ (/\ lastOp'.op = "addLibrary" /\ lastOp'.phase = "name"
       /\ lastOp'.arg # Cancel
       /\ ~validName(sanitize(lastOp'.arg)))
      => (/\ lastOp'.outcome = "InvalidName"
          /\ iniData' = iniData
          /\ file' = file
          /\ \A i \in DOMAIN trace' : trace'[i] \notin {"mutate", "write"}
          /\ flow'[lastOp'.flow].pc = "done"
          /\ flow'[lastOp'.flow].result = "InvalidName") ]_vars

\* ../x is sanitized to ..x and rejected, in a tree with no library section
C11_Witness ==
  /\ lastOp.op = "addLibrary" /\ lastOp.outcome = "InvalidName"
  /\ lastOp.arg = <<".", ".", "/", "x">>
  /\ sanitize(lastOp.arg) = <<".", ".", "x">>
  /\ getProp(iniData, S_library) = Undefined

\* C12: when addLibrary has ended successfully for the name n and the type
\* t, library.n is a section with exactly path = n, type = t (static or
\* dynamic) and dependencies = "", in iniData and in config.ini, and the
\* change event was fired.
C12_LibraryCreated ==
  (lastOp.op = "addLibrary" /\ lastOp.outcome = "ok")
  => /\ flow[lastOp.flow].libType \in {S_static, S_dynamic}
     /\ getIn(iniData, <<S_library, flow[lastOp.flow].libraryName>>)
          = Obj(<<Entry(S_path, Str(flow[lastOp.flow].libraryName)),
                  Entry(S_type, Str(flow[lastOp.flow].libType)),
                  Entry(S_dependencies, Str(<<>>))>>)
     /\ file.exists
     /\ getIn(parse(file.content), <<S_library, flow[lastOp.flow].libraryName>>)
          = getIn(iniData, <<S_library, flow[lastOp.flow].libraryName>>)
     /\ includes(trace, "fire")

\* C13: when runSetupScript fails, iniData and config.ini are what they were
\* when addLibrary was called, and an error message is shown.
C13_SetupFailureLeavesTree ==
  (lastOp.op = "addLibrary" /\ lastOp.outcome = "ExternalActionFailure")
  => /\ iniData = flow[lastOp.flow].tree0
     /\ file = flow[lastOp.flow].file0
     /\ includes(trace, "error")

\* C14: when the user dismisses a prompt of addLibrary, the flow ends with
\* iniData and config.ini as they were when the flow started; dismissing the
\* type prompt leaves no new library section in iniData.
C14_CancelLeavesTree ==
  (lastOp.op = "addLibrary" /\ lastOp.arg = Cancel)
  => /\ flow[lastOp.flow].pc = "done"
     /\ iniData = flow[lastOp.flow].tree0
     /\ file = flow[lastOp.flow].file0

\* C15: when the watcher reloaded iniData while addLibrary waited at the
\* type prompt or for runSetupScript, and the script succeeds, the flow goes
\* on and library.<name> is a section of iniData, also when the reloaded
\* tree had no library section.
C15_ReloadDuringFlow ==
  (/\ lastOp.op = "addLibrary" /\ lastOp.phase = "setup"
   /\ lastOp.outcome # "ExternalActionFailure"
   /\ flow[lastOp.flow].reloaded)
  => /\ lastOp.outcome = "pending"
     /\ isObject(getIn(iniData, <<S_library, flow[lastOp.flow].libraryName>>))

\* C16: no updateIniValue and no addDependency runs between the start and
\* the end of an addLibrary flow.
C16_NoConcurrentMutation ==
  (lastOp.op \in {"updateIniValue", "addDependency"})
  => flow["f1"].pc \in {"idle", "done"}

\* C17: a reload is not interleaved with a write or an assignment of the
\* same process: every read of config.ini by loadIniFile is followed by the
\* replacement of iniData, with no assignment into iniData and no write of
\* config.ini between the two.
C17_ReloadNotInterleaved ==
  \A i \in DOMAIN trace : trace[i] = "read" =>
    \E j \in (i + 1)..Len(trace) :
      /\ trace[j] = "load"
      /\ \A k \in (i + 1)..(j - 1) : trace[k] \notin {"mutate", "write", "read"}

\* updateIniValue wrote config.ini and reloaded it at once; the watcher's
\* reload of the same write is still to come
C17_Witness ==
  /\ lastOp.op = "updateIniValue" /\ lastOp.outcome = "ok"
  /\ \E i \in DOMAIN trace :
       /\ trace[i] = "write" /\ i + 2 <= Len(trace)
       /\ trace[i + 1] = "read" /\ trace[i + 2] = "load"
  /\ watchPending

\* C18: every change of config.ini that the watcher has seen is followed
\* by a run of its listener, which reloads and then fires the change event,
\* and after it iniData is the parse of config.ini (the empty tree when the
\* file is gone).
C18_WatcherReloads ==
  watchPending ~>
    (/\ lastOp.op = "watchFile"
     /\ \E i \in DOMAIN trace :
          /\ trace[i] = "load"
          /\ \E j \in (i + 1)..Len(trace) : trace[j] = "fire"
     /\ iniData = (IF file.exists THEN parse(file.content) ELSE Obj(<<>>)))

\* another program replaced config.ini by the project file and the
\* listener has run: the tree has the root key r of that file
C18_Witness ==
  /\ lastOp.op = "watchFile" /\ extEdits = 1 /\ ~watchPending
  /\ file = FileOf(F_project)
  /\ getProp(iniData, <<"r">>) = Str(<<"a">>)
  /\ trace = <<"read", "load", "fire">>

\* C19: after a reload iniData is exactly the parse of config.ini as it is
\* then, and the empty tree when the file is missing: nothing of the tree
\* held before survives.  A reload is the last load of a handler run with no
\* assignment and no write after it.
C19_ReloadReplacesTree ==
  (\E i \in DOMAIN trace :
     /\ trace[i] = "load"
     /\ \A j \in (i + 1)..Len(trace) : trace[j] \notin {"mutate", "write"})
  => iniData = (IF file.exists THEN parse(file.content) ELSE Obj(<<>>))

\* another program removed config.ini and the watcher reloaded: the tree is
\* empty while the view still holds the items of the tree before
C19_Witness ==
  /\ lastOp.op = "watchFile" /\ extEdits = 1
  /\ file = NoFile
  /\ iniData = Obj(<<>>)
  /\ items # {}

\* C20: when config.ini does not exist, loadIniFile (in the constructor, the
\* watcher's listener or the refresh command) leaves the empty tree, shows
\* the error message and throws nothing, and getChildren() for the root
\* gives the empty list.
C20_MissingFileLoadsEmpty ==
  (lastOp.op \in {"constructor", "watchFile", "refreshIniTree"} /\ ~file.exists)
  => /\ iniData = Obj(<<>>)
     /\ includes(trace, "error")
     /\ lastOp.outcome = "none"
     /\ getChildrenRoot(iniData) = <<>>
     /\ viewOf(iniData) = {}

\* the extension was activated in a workspace without config.ini
C20_Witness ==
  /\ lastOp.op = "constructor" /\ ~file.exists
  /\ trace = <<"error", "load">>
  /\ items = {}

\* C21: getSectionData gives undefined for the section path of every item
\* the view holds when a part of the path before the last is missing in
\* iniData or names a value that is no section: it never walks through a
\* leaf.
C21_NoDescentThroughLeaf ==
  \A item \in items : \A parts \in {split(item.section, ".")} :
    (\E i \in 1..(Len(parts) - 1) : ~isObject(getIn(iniData, SubSeq(parts, 1, i))))
    => getSectionData(iniData, item.section) = Undefined

\* C22: getSectionData of the empty path gives the root of iniData.
C22_EmptyPathIsRoot ==
  getSectionData(iniData, <<>>) = iniData

\* C23: for every section that the walk of getChildren from the root
\* reaches, getSectionData of the section path the walk gave the item is
\* the item's own data.
C23_WalkedPathResolves ==
  \A it \in allItems(iniData) :
    isObject(it.data) => getSectionData(iniData, it.section) = it.data

\* C24: an item that getChildren gives has the contextValue
\* applicationOrLibrary exactly when it is a section whose path is
\* application, library, or library.<name> for a key <name> of library;
\* leaves and sections further below library do not have it.
C24_BuildableUnits ==
  \A it \in allItems(iniData) : \A parts \in {split(it.section, ".")} :
    (it.contextValue = "applicationOrLibrary")
    <=> (/\ isObject(it.data)
         /\ \/ it.section = S_application
            \/ it.section = S_library
            \/ (Len(parts) = 2 /\ parts[1] = S_library))

\* the section path a header line names: the text between the brackets,
\* split at the dots that no backslash precedes
headerPath(line) ==
  [i \in 1..Len(splitSections(SubSeq(line, 2, Len(line) - 1))) |->
     unescapeDots(splitSections(SubSeq(line, 2, Len(line) - 1))[i])]

\* C25: in the text that updateIniFile has written, every header names a
\* section of the tree that was written, with one unescaped dot for each
\* level of nesting, and the header is read back as that nested section; a
\* nested section with a key of its own, reached by keys without a dot, is
\* under the header [parent.child] with no backslash in it.
C25_NestedHeaders ==
  includes(trace, "write") =>
    /\ \A n \in DOMAIN file.content :
         (file.content[n] # <<>> /\ file.content[n][1] = "[")
         => /\ isObject(getIn(persisted, headerPath(file.content[n])))
            /\ isObject(getIn(parse(file.content), headerPath(file.content[n])))
    /\ \A it \in allItems(persisted) :
         (/\ isObject(it.data)
          /\ \E i \in DOMAIN it.data.kids : ~isObject(it.data.kids[i].n)
          /\ Len(split(it.section, ".")) >= 2
          /\ getIn(persisted, split(it.section, ".")) = it.data)
         => \E n \in DOMAIN file.content :
              file.content[n] = <<"[">> \o it.section \o <<"]">>

\* updateIniValue wrote the key k of the section library.g.s, two levels
\* below library
C25_Witness ==
  /\ lastOp.op = "updateIniValue" /\ lastOp.outcome = "ok"
  /\ includes(trace, "write")
  /\ file.content[1] = <<"[">> \o S_libraryDot \o <<"g", ".", "s", "]">>
  /\ getIn(persisted, <<S_library, <<"g">>, <<"s">>, <<"k">>>>) = Str(<<"x">>)

\* C26: every value of the tree that is not a section is a string: a load
\* keeps the texts true, false and null as strings.
C26_LeavesAreStrings ==
  \A it \in allItems(iniData) : ~isObject(it.data) => it.data.t = "string"

\* C27: no operation lets an exception escape: what a step throws is
\* caught in the step and reported with an error message.
C27_NoExceptionEscapes ==
  lastOp.outcome = "TypeError" => includes(trace, "error")

\* C28: from config.ini with the lines [application] and "dependencies =",
\* loaded as it is, addDependency on application with the name mathlib
\* leaves config.ini with the lines [application] and
\* "dependencies = mathlib".
C28_SpacedLine ==
  [][(/\ file = FileOf(F_spaced)
      /\ iniData = parse(F_spaced)
      /\ nops' = nops + 1
      /\ lastOp'.op = "addDependency"
      /\ lastOp'.item.section = S_application
      /\ lastOp'.arg = S_mathlib)
     => file' = FileOf(<< <<"[">> \o S_application \o <<"]">>,
                          S_dependencies \o <<" ", "=", " ">> \o S_mathlib >>)]_vars

\* how often the name is an entry of the dependencies of the section at
\* the dotted path in the tree
timesListed(tree, sectionName, name) ==
  IF getProp(getSectionData(tree, sectionName), S_dependencies).t = "string"
  THEN Cardinality(
         {i \in DOMAIN depsArrayOf(getProp(getSectionData(tree, sectionName), S_dependencies)) :
            depsArrayOf(getProp(getSectionData(tree, sectionName), S_dependencies))[i] = name})
  ELSE 0

\* C29: when the target prompt of addLibrary is answered with a section of
\* the tree, then at the end of addLibrary the new name is listed exactly
\* once in the dependencies of that section, in the tree and in config.ini.
C29_TargetListsLibraryOnce ==
  [][\A f \in Flows :
       (/\ flow[f].pc = "target" /\ flow'[f].pc = "done"
        /\ lastOp'.arg # Cancel
        /\ isObject(getSectionData(iniData, lastOp'.arg)))
       => /\ timesListed(iniData', lastOp'.arg, flow[f].libraryName) = 1
          /\ file'.exists
          /\ timesListed(parse(file'.content), lastOp'.arg, flow[f].libraryName) = 1]_vars

\* the entries of the dependencies of the section at the dotted path
depsListed(tree, sectionName) ==
  depsArrayOf(getProp(getSectionData(tree, sectionName), S_dependencies))

\* C30: when addDependency has added a name, the dependencies of the
\* section are a string that, split at its commas, gives the entries the
\* list had before, in their order, followed by the name as it was given.
C30_AppendedLast ==
  [][(/\ nops' = nops + 1
      /\ lastOp'.op = "addDependency"
      /\ lastOp'.outcome = "ok")
     => /\ getProp(getSectionData(iniData', lastOp'.item.section), S_dependencies).t
             = "string"
        /\ split(getProp(getSectionData(iniData', lastOp'.item.section),
                         S_dependencies).s, ",")
             = Append(depsListed(iniData, lastOp'.item.section), lastOp'.arg)]_vars

\* addDependency has added mathlib to a list that had the entries a and b
C30_Witness ==
  /\ lastOp.op = "addDependency" /\ lastOp.outcome = "ok"
  /\ depsListed(iniData, S_application) = << <<"a">>, <<"b">>, S_mathlib >>

\* the entries of the dependencies of the section at the dotted path as they
\* are written: the text split at the commas, nothing trimmed
depsWritten(tree, sectionName) ==
  IF getProp(getSectionData(tree, sectionName), S_dependencies).t = "string"
  THEN split(getProp(getSectionData(tree, sectionName), S_dependencies).s, ",")
  ELSE <<>>

\* C31: after addDependency has added a name, the dependencies written to
\* config.ini for the section hold no entry with a blank at its start or
\* end and no entry twice.
C31_NormalizedOnWrite ==
  (lastOp.op = "addDependency" /\ lastOp.outcome = "ok" /\ file.exists)
  => /\ \A i \in DOMAIN depsWritten(parse(file.content), lastOp.item.section) :
          depsWritten(parse(file.content), lastOp.item.section)[i]
            = trim(depsWritten(parse(file.content), lastOp.item.section)[i])
     /\ \A i, j \in DOMAIN depsWritten(parse(file.content), lastOp.item.section) :
          depsWritten(parse(file.content), lastOp.item.section)[i]
            = depsWritten(parse(file.content), lastOp.item.section)[j]
          => i = j

\* the names of the sections below library
libraryKeys(tree) ==
  IF isObject(getProp(tree, S_library))
  THEN Range(keysOf(getProp(tree, S_library)))
  ELSE {}

\* C32: the name with which addLibrary goes on to the setup script is the
\* sanitized input and has only letters, digits, underscores and hyphens,
\* and a section that the step after the script puts below library has
\* that name.
C32_CreatedNamesAreValid ==
  [][\A f \in Flows :
       /\ (flow[f].pc = "idle" /\ flow'[f].pc = "type")
          => /\ flow'[f].libraryName = sanitize(lastOp'.arg)
             /\ validName(flow'[f].libraryName)
       /\ (flow[f].pc = "setup" /\ flow'[f].pc # "setup")
          => \A k \in libraryKeys(iniData') \ libraryKeys(iniData) :
               k = flow[f].libraryName /\ validName(k)]_vars

\* the input ./h went through the script as h, and library.h was made
C32_Witness ==
  \E f \in Flows :
    /\ flow[f].pc = "dep" /\ flow[f].libraryName = <<"h">>
    /\ lastOp.phase = "setup"
    /\ isObject(getIn(iniData, <<S_library, <<"h">>>>))
    /\ isObject(getIn(parse(file.content), <<S_library, <<"h">>>>))

\* C33: addLibrary does not assign over a library.<name> that is in
\* iniData: when the section exists at the end of runSetupScript (a reload
\* brought it in while the flow waited), its fields are not replaced.
C33_ExistingLibraryKept ==
  [][\A f \in Flows :
       (/\ flow[f].pc = "setup" /\ flow'[f].pc # "setup"
        /\ truthy(getIn(iniData, <<S_library, flow[f].libraryName>>)))
       => getIn(iniData', <<S_library, flow[f].libraryName>>)
            = getIn(iniData, <<S_library, flow[f].libraryName>>)]_vars

\* C34: when runSetupScript of an addLibrary flow for the name n has
\* succeeded, the step that follows it has written config.ini with the
\* section library.n, whatever reloads happened while the flow waited.
C34_ScaffoldedIsWritten ==
  (/\ lastOp.op = "addLibrary" /\ lastOp.phase = "setup"
   /\ lastOp.outcome # "ExternalActionFailure")
  => /\ includes(trace, "write")
     /\ file.exists
     /\ isObject(getIn(parse(file.content),
                       <<S_library, flow[lastOp.flow].libraryName>>))

\* the paths of the tree that end at a value that is no section
RECURSIVE leafPaths(_)
leafPaths(v) ==
  IF ~isObject(v) THEN {<<>>}
  ELSE UNION {{<<v.kids[i].k>> \o p : p \in leafPaths(v.kids[i].n)} :
              i \in DOMAIN v.kids}

\* what config.ini holds, as a tree
fileTree(f) == IF f.exists THEN parse(f.content) ELSE Obj(<<>>)

\* the key that updateIniValue or addDependency is to assign
targetPath(op) ==
  Append(split(op.item.section, "."),
         IF op.op = "addDependency" THEN S_dependencies ELSE op.item.label)

\* C35: when updateIniValue or addDependency writes config.ini, every key
\* of the file other than the one the operation assigns has after the
\* write the value it had in the file right before it, and no other key is
\* new, also when the file was changed by another program and not yet
\* reloaded.
C35_WriteChangesTargetOnly ==
  [][(/\ lastOp'.op \in {"updateIniValue", "addDependency"}
      /\ nops' = nops + 1
      /\ includes(trace', "write"))
     => \A q \in (leafPaths(fileTree(file)) \cup leafPaths(fileTree(file')))
                 \ {targetPath(lastOp')} :
          getIn(fileTree(file'), q) = getIn(fileTree(file), q)]_vars

\* the paths of the tree: its sections and its keys
RECURSIVE shape(_)
shape(v) ==
  IF ~isObject(v) THEN {<<>>}
  ELSE {<<>>} \cup UNION {{<<v.kids[i].k>> \o p : p \in shape(v.kids[i].n)} :
                          i \in DOMAIN v.kids}

\* C36: updateIniValue leaves the sections and keys of iniData as they
\* were, also when the item is of an earlier tree and a reload has removed
\* its key since.
C36_ShapeKept ==
  [][(lastOp'.op = "updateIniValue" /\ nops' = nops + 1)
     => shape(iniData') = shape(iniData)]_vars

\* C37: when an addLibrary flow has ended, no section library.<name> has
\* its own name among its dependencies, in iniData and in config.ini.
C37_NoSelfDependency ==
  (lastOp.op = "addLibrary" /\ flow[lastOp.flow].pc = "done")
  => \A tree \in {iniData, fileTree(file)} :
       \A k \in libraryKeys(tree) :
         getIn(tree, <<S_library, k, S_dependencies>>).t = "string"
         => ~includes(depsArrayOf(getIn(tree, <<S_library, k, S_dependencies>>)), k)

\* C38: the listener of the watcher does not write config.ini, and from
\* some point on the watcher has no change left to report: the reload that
\* follows a write of the store is not followed by a further write and
\* reload.
C38_ReloadQuiesces ==
  /\ [][lastOp'.op = "watchFile"
        => (file' = file /\ ~includes(trace', "write"))]_vars
  /\ <>[](~watchPending)

\* updateIniValue wrote config.ini, the watcher reported the write, the
\* listener reloaded, and nothing is pending
C38_Witness ==
  /\ lastOp.op = "watchFile" /\ ~watchPending
  /\ extEdits = 0 /\ nops = 1
  /\ persisted # Undefined
  /\ file = FileOf(stringify(persisted))
  /\ trace = <<"read", "load", "fire">>

====
